---- MODULE Spec2Model ----
(***************************************************************************)
(* Model of src/src/modules/home/HomeView.tsx: the HomeView component's     *)
(* order synchronisation.  The React state (branchId, isConnected, orders,  *)
(* connectionMessages), the WebSocket held in socketRef with the sockets    *)
(* connectWebSocket replaced, and the fetchOrders requests in flight are    *)
(* the state; every event handler is one action.                            *)
(***************************************************************************)
EXTENDS Integers, Sequences, FiniteSets, TLC

\* ------------------------------------------------------------------ bounds

\* fetchOrders requests that may be in flight at once
MaxFetches == 2
\* replaced sockets whose close has not been delivered yet
MaxReplaced == 1
\* largest quantity of an order line
MaxQuantity == 3

\* ------------------------------------------------------- values and inputs

\* the Branch ID input: empty, or one of two branches
NoBranch == ""
Branches == {"B1", "B2"}
BranchInputs == Branches \cup {NoBranch}

OrderIDs == {"O1", "O2"}
\* an order belongs to one branch for good (orderID is unique and stable);
\* both orders of the model are orders of B1, and B2 is a branch without orders
BranchOf(id) == "B1"
Statuses == {"Pending", "Preparing", "Completed"}

\* ResponseOrderDTO, cut to the fields the handlers and the claims read: O1 in
\* each status, O2 as a second order beside it
ValidOrders ==
  {[orderID |-> "O1", branchID |-> BranchOf("O1"), orderStatus |-> s] :
     s \in Statuses}
  \cup {[orderID |-> "O2", branchID |-> BranchOf("O2"), orderStatus |-> "Pending"]}

\* data.data of a frame that carries no data field
JsUndefined == [jsUndefined |-> TRUE]
\* the payloads that are no order
InvalidPayloads == {JsUndefined}

\* o.orderID as JavaScript reads it: undefined when the field is absent
OrderID(o) == IF "orderID" \in DOMAIN o THEN o.orderID ELSE "undefined"

\* ------------------------------------------------- the setOrders updaters

\* prev.some((o) => o.orderID === order.orderID): "true", "false", or
\* "throw" when a property of undefined is read before a match is found
RECURSIVE SomeSameID(_, _)
SomeSameID(prev, order) ==
  IF prev = <<>> THEN "false"
  ELSE IF Head(prev) = JsUndefined \/ order = JsUndefined THEN "throw"
  ELSE IF OrderID(Head(prev)) = OrderID(order) THEN "true"
  ELSE SomeSameID(Tail(prev), order)

\* prev.map((o) => (o.orderID === order.orderID ? order : o)) throws when it
\* reads a property of undefined: the callback runs for every element
MapThrows(prev, order) ==
  /\ prev # <<>>
  /\ \/ order = JsUndefined
     \/ \E i \in DOMAIN prev : prev[i] = JsUndefined

MapReplace(prev, order) ==
  [i \in DOMAIN prev |->
     IF OrderID(prev[i]) = OrderID(order) THEN order ELSE prev[i]]

\* mutants of handleNewOrder
HandleNewOrderAlwaysAppend(prev, order) == Append(prev, order)

HandleNewOrderReplaceAndAppend(prev, order) ==
  IF SomeSameID(prev, order) = "true"
    THEN Append(MapReplace(prev, order), order)
    ELSE Append(prev, order)

\* mutant of handleNewOrder: setOrders([...orders, order]) with the orders its
\* closure captured on the first render, instead of the functional updater
HandleNewOrderStaleClosure(prev, order) == <<order>>

\* handleNewOrder's updater, lines 160-167
HandleNewOrder(prev, order) ==
  IF SomeSameID(prev, order) = "true"
    THEN MapReplace(prev, order)
    ELSE Append(prev, order)

HandleNewOrderThrows(prev, order) ==
  \/ SomeSameID(prev, order) = "throw"
  \/ SomeSameID(prev, order) = "true" /\ MapThrows(prev, order)

\* a variant of handleStatusChange that takes the changed order out of the list
HandleStatusChangeRemoves(prev, updatedOrder) ==
  SelectSeq(prev, LAMBDA o : OrderID(o) # OrderID(updatedOrder))

\* handleStatusChange's updater, lines 172-176
HandleStatusChange(prev, updatedOrder) == MapReplace(prev, updatedOrder)

HandleStatusChangeThrows(prev, updatedOrder) == MapThrows(prev, updatedOrder)

\* ------------------------------------------------------------------- state

VARIABLES
  branchId,            \* useState, line 52
  isConnected,         \* useState, line 53
  orders,              \* useState, line 54: the order store
  connectionMessages,  \* useState, line 55: the entries the latest handler
                       \* appended (the log is append-only and no handler
                       \* reads it, so the older entries are not kept)
  alerts,              \* the alert() dialogs the latest handler raised
  consoleErrors,       \* what the latest handler wrote with console.error, and
                       \* the error React reports when a render throws
  socketRef,           \* useRef, line 72: the socket connectWebSocket made last
  replaced,            \* sockets socketRef no longer holds, close not yet fired
  pendingFetches,      \* fetchOrders requests awaiting their response, per branch
  mounted,             \* whether the component is mounted
  item,                \* the order line a Total cell is rendered for
  totalCell,           \* what that cell shows, in cents; empty before it renders
  reconcileStarted,    \* history: while the socket in socketRef is connecting,
                       \* whether fetchOrders was called for its branch since
                       \* connectWebSocket created it
  e2e                  \* history: how far the run so far follows Scenario

vars == <<branchId, isConnected, orders, connectionMessages, alerts, consoleErrors, socketRef,
          replaced, pendingFetches, mounted, item, totalCell, reconcileStarted, e2e>>

\* socketRef.current === null
Null == [readyState |-> "NONE", handshake |-> FALSE, branch |-> NoBranch]

\* new WebSocket(wsUrl), line 96
NewSocket(b) == [readyState |-> "CONNECTING", handshake |-> FALSE, branch |-> b]

\* WebSocket.close(): a connecting or open socket starts closing, and a
\* closing or closed one is left as it is
Close(s) ==
  IF s.readyState \in {"CONNECTING", "OPEN"}
    THEN [s EXCEPT !.readyState = "CLOSING"]
    ELSE s

NoFetches == [b \in BranchInputs |-> 0]
InFlight(p) == p[NoBranch] + p["B1"] + p["B2"]

\* what a frame on a subscription to branch b may carry as data
Payloads(b) == {o \in ValidOrders : o.branchID = b} \cup InvalidPayloads

\* the frames the server may push on a subscription to branch b
Frames(b) ==
  {[type |-> t, data |-> d] :
     t \in {"new_order", "status_changed", "connection", "pong", "unknown"},
     d \in Payloads(b)}
  \cup {[type |-> "unparseable", data |-> JsUndefined]}

\* what GetOrdersByBranchId may hold for branch b: orders of b, distinct ids
Snapshots(b) ==
  LET os == {o \in ValidOrders : o.branchID = b} IN
    {<<>>} \cup {<<o>> : o \in os}
    \cup {s \in os \X os : s[1].orderID # s[2].orderID}

\* the failures of axios.get: the request throws (line 208), or the
\* envelope's response is not 200 (line 205)
Failures ==
  {[outcome |-> "throw", data |-> <<>>], [outcome |-> "non200", data |-> <<>>]}

\* the outcomes of axios.get: a failure, or the envelope's response is 200,
\* with no data or with the branch's orders
Responses(b) ==
  Failures
  \cup (IF b = NoBranch THEN {}
        ELSE {[outcome |-> "null", data |-> <<>>]}
             \cup {[outcome |-> "ok", data |-> d] : d \in Snapshots(b)})

Mount ==
  /\ branchId = NoBranch
  /\ isConnected = FALSE
  /\ orders = <<>>
  /\ connectionMessages = <<>>
  /\ alerts = <<>>
  /\ consoleErrors = <<>>
  /\ socketRef = Null
  /\ replaced = <<>>
  /\ pendingFetches = NoFetches
  /\ mounted = TRUE
  /\ reconcileStarted = FALSE
  /\ e2e = "start"

\* the orders of the model carry no lines, so no Total cell is rendered
NoItem == [itemID |-> "none"]

Init == Mount /\ item = NoItem /\ totalCell = <<>>

\* ----------------------------------------------------------------- history

Order(i, s) == [orderID |-> i, branchID |-> BranchOf(i), orderStatus |-> s]

\* The end-to-end run of the specification's section 8, as this component
\* shows it in its state and its log: the branch is entered (which starts the
\* fetch), connectWebSocket is called, the socket opens, the fetch returns no
\* orders, O1 is pushed as Pending and then as Preparing, the user
\* disconnects, the socket closes, connectWebSocket is called again and the
\* socket opens.  From then on the server holds O1 as Completed.
ScenarioNext(phase) ==
  CASE phase = "start" -> "branch"
    [] phase = "branch" -> "connecting"
    [] phase = "connecting" -> "connected"
    [] phase = "connected" -> "reconciled"
    [] phase = "reconciled" -> "new_order"
    [] phase = "new_order" -> "status_changed"
    [] phase = "status_changed" -> "disconnecting"
    [] phase = "disconnecting" -> "disconnected"
    [] phase = "disconnected" -> "reconnecting"
    [] phase = "reconnecting" -> "reconnected"
    [] OTHER -> phase

ScenarioStep ==
  /\ mounted'
  /\ CASE e2e = "start" -> branchId = NoBranch /\ branchId' = "B1"
       [] e2e \in {"branch", "disconnected"} ->
            connectionMessages' = <<"Connecting">>
       [] e2e \in {"connecting", "reconnecting"} ->
            connectionMessages' = <<"Connected to WebSocket server">>
       [] e2e = "connected" ->
            connectionMessages' = <<"Fetched orders">> /\ orders' = <<>>
       [] e2e = "reconciled" ->
            /\ connectionMessages' = <<"Received: new_order">>
            /\ orders' = <<Order("O1", "Pending")>>
       [] e2e = "new_order" ->
            /\ connectionMessages' = <<"Received: status_changed">>
            /\ orders' = <<Order("O1", "Preparing")>>
       [] e2e = "status_changed" ->
            connectionMessages' = <<"Manually disconnected">>
       [] e2e = "disconnecting" ->
            /\ connectionMessages' = <<"Disconnected from WebSocket server">>
            /\ socketRef'.readyState = "CLOSED"
       [] e2e = "reconnected" ->
            /\ connectionMessages' = <<"Fetched orders">>
            /\ orders' = <<Order("O1", "Completed")>>
       [] OTHER -> FALSE

\* the history variables, which no handler reads; every action ends with it
History ==
  /\ reconcileStarted' =
       IF socketRef'.readyState # "CONNECTING" \/ socketRef' # socketRef
         THEN FALSE
       ELSE IF pendingFetches'[socketRef.branch] > pendingFetches[socketRef.branch]
         THEN TRUE
       ELSE reconcileStarted
  /\ e2e' = IF ScenarioStep THEN ScenarioNext(e2e) ELSE "off"

\* ----------------------------------------------------------------- actions

\* The component goes away: its state is gone, later setState calls and
\* fetch results do nothing, and the cleanup of lines 187-193 closes the socket
Teardown(errs) ==
  /\ mounted' = FALSE
  /\ alerts' = <<>>
  /\ consoleErrors' = errs
  /\ branchId' = NoBranch
  /\ isConnected' = FALSE
  /\ orders' = <<>>
  /\ connectionMessages' = <<>>
  /\ pendingFetches' = NoFetches
  /\ socketRef' = Close(socketRef)
  /\ UNCHANGED replaced

Unmount == mounted /\ Teardown(<<>>) /\ UNCHANGED <<item, totalCell>> /\ History

\* onChange of the Branch ID input, line 315, and the effect of lines 180-184
SetBranchId(b) ==
  /\ mounted
  /\ b # branchId
  /\ branchId' = b
  /\ IF b # NoBranch
       THEN /\ InFlight(pendingFetches) < MaxFetches
            /\ pendingFetches' = [pendingFetches EXCEPT ![b] = @ + 1]
       ELSE UNCHANGED pendingFetches
  /\ connectionMessages' = <<>>
  /\ alerts' = <<>>
  /\ consoleErrors' = <<>>
  /\ UNCHANGED <<isConnected, orders, socketRef, replaced, mounted>>
  /\ UNCHANGED <<item, totalCell>>
  /\ History

\* the Refresh Orders button, line 346: fetchOrders up to its await
RefreshOrders ==
  /\ mounted
  /\ InFlight(pendingFetches) < MaxFetches
  /\ pendingFetches' = [pendingFetches EXCEPT ![branchId] = @ + 1]
  /\ connectionMessages' = <<>>
  /\ alerts' = <<>>
  /\ consoleErrors' = <<>>
  /\ UNCHANGED <<branchId, isConnected, orders, socketRef, replaced, mounted>>
  /\ UNCHANGED <<item, totalCell>>
  /\ History

\* mutant of fetchOrders: a failed request empties the store
FetchOrdersClearsOnFailure(b, r) ==
  /\ mounted
  /\ pendingFetches[b] > 0
  /\ pendingFetches' = [pendingFetches EXCEPT ![b] = @ - 1]
  /\ orders' = IF r.outcome = "ok" THEN r.data ELSE <<>>
  /\ connectionMessages' =
       IF r.outcome = "ok" THEN <<"Fetched orders">> ELSE <<>>
  /\ alerts' = <<>>
  /\ consoleErrors' =
       IF r.outcome = "ok" THEN <<>> ELSE <<"Error fetching orders">>
  /\ UNCHANGED <<branchId, isConnected, socketRef, replaced, mounted>>
  /\ UNCHANGED <<item, totalCell>>
  /\ History

\* fetchOrders from its await on, lines 198-210, for a request made for b
FetchOrdersDone(b, r) ==
  /\ mounted
  /\ pendingFetches[b] > 0
  /\ pendingFetches' = [pendingFetches EXCEPT ![b] = @ - 1]
  /\ orders' = CASE r.outcome = "ok" -> r.data
                 [] r.outcome = "null" -> <<>>
                 [] OTHER -> orders
  /\ connectionMessages' =
       IF r.outcome = "ok" THEN <<"Fetched orders">> ELSE <<>>
  /\ alerts' = <<>>
  /\ consoleErrors' =
       IF r.outcome = "ok" THEN <<>> ELSE <<"Error fetching orders">>
  /\ UNCHANGED <<branchId, isConnected, socketRef, replaced, mounted>>
  /\ UNCHANGED <<item, totalCell>>
  /\ History

\* mutant of connectWebSocket: isConnected is set before the socket opens
ConnectWebSocketOptimistic ==
  /\ mounted
  /\ ~isConnected
  /\ IF branchId = NoBranch
       THEN /\ connectionMessages' = <<>>
            /\ UNCHANGED <<socketRef, replaced, isConnected>>
       ELSE LET old == Close(socketRef) IN
            /\ replaced' = IF old.readyState = "CLOSING"
                             THEN Append(replaced, [handshake |-> old.handshake,
                                               readyState |-> old.readyState])
                             ELSE replaced
            /\ Len(replaced') <= MaxReplaced
            /\ socketRef' = NewSocket(branchId)
            /\ isConnected' = TRUE
            /\ connectionMessages' = <<"Connecting">>
  /\ alerts' = IF branchId = NoBranch THEN <<"Please enter a Branch ID">> ELSE <<>>
  /\ consoleErrors' = <<>>
  /\ UNCHANGED <<branchId, orders, pendingFetches, mounted>>
  /\ UNCHANGED <<item, totalCell>>
  /\ History

\* mutant of connectWebSocket: the check of lines 79-82 is left out
ConnectWebSocketUnchecked ==
  /\ mounted
  /\ ~isConnected
  /\ LET old == Close(socketRef) IN
       /\ replaced' = IF old.readyState = "CLOSING"
                        THEN Append(replaced, [handshake |-> old.handshake,
                                               readyState |-> old.readyState])
                        ELSE replaced
       /\ Len(replaced') <= MaxReplaced
       /\ socketRef' = NewSocket(branchId)
       /\ connectionMessages' = <<"Connecting">>
  /\ alerts' = <<>>
  /\ consoleErrors' = <<>>
  /\ UNCHANGED <<branchId, isConnected, orders, pendingFetches, mounted>>
  /\ UNCHANGED <<item, totalCell>>
  /\ History

\* a variant that creates the new socket without closing the one it holds
ConnectWebSocketNoClose ==
  /\ mounted
  /\ ~isConnected
  /\ IF branchId = NoBranch
       THEN /\ connectionMessages' = <<>>
            /\ UNCHANGED <<socketRef, replaced>>
       ELSE LET old == socketRef IN
            /\ replaced' = IF old.readyState \in {"CONNECTING", "OPEN", "CLOSING"}
                             THEN Append(replaced, [handshake |-> old.handshake,
                                               readyState |-> old.readyState])
                             ELSE replaced
            /\ Len(replaced') <= MaxReplaced
            /\ socketRef' = NewSocket(branchId)
            /\ connectionMessages' = <<"Connecting">>
  /\ alerts' = IF branchId = NoBranch THEN <<"Please enter a Branch ID">> ELSE <<>>
  /\ consoleErrors' = <<>>
  /\ UNCHANGED <<branchId, isConnected, orders, pendingFetches, mounted>>
  /\ UNCHANGED <<item, totalCell>>
  /\ History

\* connectWebSocket, lines 78-148; the Connect button is disabled while
\* isConnected (line 320)
ConnectWebSocket ==
  /\ mounted
  /\ ~isConnected
  /\ IF branchId = NoBranch
       THEN /\ connectionMessages' = <<>>
            /\ UNCHANGED <<socketRef, replaced>>
       ELSE LET old == Close(socketRef) IN
            /\ replaced' = IF old.readyState = "CLOSING"
                             THEN Append(replaced, [handshake |-> old.handshake,
                                               readyState |-> old.readyState])
                             ELSE replaced
            /\ Len(replaced') <= MaxReplaced
            /\ socketRef' = NewSocket(branchId)
            /\ connectionMessages' = <<"Connecting">>
  /\ alerts' = IF branchId = NoBranch THEN <<"Please enter a Branch ID">> ELSE <<>>
  /\ consoleErrors' = <<>>
  /\ UNCHANGED <<branchId, isConnected, orders, pendingFetches, mounted>>
  /\ UNCHANGED <<item, totalCell>>
  /\ History

\* what the Disconnect button's handler appends to the log, lines 331-334
DisconnectLog(s) == IF s # Null THEN <<"Manually disconnected">> ELSE <<>>

\* the Disconnect button, lines 329-336, disabled unless isConnected
Disconnect ==
  /\ mounted
  /\ isConnected
  /\ socketRef' = Close(socketRef)
  /\ connectionMessages' = DisconnectLog(socketRef)
  /\ alerts' = <<>>
  /\ consoleErrors' = <<>>
  /\ UNCHANGED <<branchId, isConnected, orders, replaced, pendingFetches, mounted>>
  /\ UNCHANGED <<item, totalCell>>
  /\ History

\* onopen, lines 98-103
OnOpen ==
  /\ socketRef.readyState = "CONNECTING"
  /\ socketRef' = [socketRef EXCEPT !.readyState = "OPEN", !.handshake = TRUE]
  /\ isConnected' = TRUE
  /\ connectionMessages' = <<"Connected to WebSocket server">>
  /\ alerts' = <<>>
  /\ consoleErrors' = <<>>
  /\ UNCHANGED <<branchId, orders, replaced, pendingFetches, mounted>>
  /\ UNCHANGED <<item, totalCell>>
  /\ History

\* onclose, lines 135-138, and onerror, lines 140-143, as seen by the state
Closed(msgs) ==
  /\ isConnected' = FALSE
  /\ connectionMessages' = IF mounted THEN msgs ELSE <<>>
  /\ alerts' = <<>>
  /\ consoleErrors' = <<>>
  /\ UNCHANGED <<branchId, orders, pendingFetches, mounted>>

\* the close event of the socket in socketRef: the server closes an open
\* socket, or the close the client asked for completes
OnClose ==
  /\ \/ socketRef.readyState = "OPEN"
     \/ socketRef.readyState = "CLOSING" /\ socketRef.handshake
  /\ socketRef' = [socketRef EXCEPT !.readyState = "CLOSED"]
  /\ Closed(<<"Disconnected from WebSocket server">>)
  /\ UNCHANGED replaced
  /\ UNCHANGED <<item, totalCell>>
  /\ History

\* the connection of the socket in socketRef fails: the handshake fails, an
\* open channel is lost, or the socket was closed before it opened; the
\* browser fires the error event and then the close event in one task
OnError ==
  /\ \/ socketRef.readyState \in {"CONNECTING", "OPEN"}
     \/ socketRef.readyState = "CLOSING" /\ ~socketRef.handshake
  /\ socketRef' = [socketRef EXCEPT !.readyState = "CLOSED"]
  /\ Closed(<<"WebSocket error", "Disconnected from WebSocket server">>)
  /\ UNCHANGED replaced
  /\ UNCHANGED <<item, totalCell>>
  /\ History

RemoveAt(s, i) == [j \in 1..(Len(s) - 1) |-> IF j < i THEN s[j] ELSE s[j + 1]]

\* the same two events of a socket that connectWebSocket replaced: its
\* handlers are the closures of lines 135-143 and write the same state
OnCloseReplaced(i) ==
  /\ replaced[i].handshake
  /\ replaced' = RemoveAt(replaced, i)
  /\ Closed(<<"Disconnected from WebSocket server">>)
  /\ UNCHANGED socketRef
  /\ UNCHANGED <<item, totalCell>>
  /\ History

OnErrorReplaced(i) ==
  /\ ~replaced[i].handshake
  /\ replaced' = RemoveAt(replaced, i)
  /\ Closed(<<"WebSocket error", "Disconnected from WebSocket server">>)
  /\ UNCHANGED socketRef
  /\ UNCHANGED <<item, totalCell>>
  /\ History

\* the order list of lines 543-545 reads order.orderID of every stored order
RenderThrows(order) == order = JsUndefined

\* mutant of onmessage: the default case and the pong case empty the store
OnMessageDefaultClears(f) ==
  /\ socketRef.readyState = "OPEN"
  /\ f \in Frames(socketRef.branch)
  /\ CASE f.type = "unparseable" ->
            /\ connectionMessages' = <<>>
            /\ alerts' = <<>>
            /\ consoleErrors' = <<"Error parsing WebSocket message">>
            /\ UNCHANGED <<branchId, isConnected, orders, socketRef, replaced,
                           pendingFetches, mounted>>
       [] f.type = "new_order" ->
            IF HandleNewOrderThrows(orders, f.data) \/ RenderThrows(f.data)
              THEN Teardown(<<"Uncaught TypeError">>)
              ELSE /\ orders' = HandleNewOrder(orders, f.data)
                   /\ connectionMessages' = <<"Received: new_order">>
                   /\ alerts' = <<>>
                   /\ consoleErrors' = <<>>
                   /\ UNCHANGED <<branchId, isConnected, socketRef, replaced,
                                  pendingFetches, mounted>>
       [] f.type = "status_changed" ->
            IF HandleStatusChangeThrows(orders, f.data)
              THEN Teardown(<<"Uncaught TypeError">>)
              ELSE /\ orders' = HandleStatusChange(orders, f.data)
                   /\ connectionMessages' = <<"Received: status_changed">>
                   /\ alerts' = <<>>
                   /\ consoleErrors' = <<>>
                   /\ UNCHANGED <<branchId, isConnected, socketRef, replaced,
                                  pendingFetches, mounted>>
       [] f.type = "connection" ->
            /\ connectionMessages' =
                 <<"Received: connection", "Connection established">>
            /\ alerts' = <<>>
            /\ consoleErrors' = <<>>
            /\ UNCHANGED <<branchId, isConnected, orders, socketRef, replaced,
                           pendingFetches, mounted>>
       [] OTHER ->
            /\ connectionMessages' = <<"Received: " \o f.type>>
            /\ alerts' = <<>>
            /\ consoleErrors' = <<>>
            /\ orders' = <<>>
            /\ UNCHANGED <<branchId, isConnected, socketRef, replaced,
                           pendingFetches, mounted>>
  /\ UNCHANGED <<item, totalCell>>
  /\ History

\* onmessage, lines 105-133.  An updater that throws does so when React
\* renders, outside the handler's try, and so does the order list when the
\* store holds undefined: the component is torn down
OnMessage(f) ==
  /\ socketRef.readyState = "OPEN"
  /\ f \in Frames(socketRef.branch)
  /\ CASE f.type = "unparseable" ->
            /\ connectionMessages' = <<>>
            /\ alerts' = <<>>
            /\ consoleErrors' = <<"Error parsing WebSocket message">>
            /\ UNCHANGED <<branchId, isConnected, orders, socketRef, replaced,
                           pendingFetches, mounted>>
       [] f.type = "new_order" ->
            IF HandleNewOrderThrows(orders, f.data) \/ RenderThrows(f.data)
              THEN Teardown(<<"Uncaught TypeError">>)
              ELSE /\ orders' = HandleNewOrder(orders, f.data)
                   /\ connectionMessages' = <<"Received: new_order">>
                   /\ alerts' = <<>>
                   /\ consoleErrors' = <<>>
                   /\ UNCHANGED <<branchId, isConnected, socketRef, replaced,
                                  pendingFetches, mounted>>
       [] f.type = "status_changed" ->
            IF HandleStatusChangeThrows(orders, f.data)
              THEN Teardown(<<"Uncaught TypeError">>)
              ELSE /\ orders' = HandleStatusChange(orders, f.data)
                   /\ connectionMessages' = <<"Received: status_changed">>
                   /\ alerts' = <<>>
                   /\ consoleErrors' = <<>>
                   /\ UNCHANGED <<branchId, isConnected, socketRef, replaced,
                                  pendingFetches, mounted>>
       [] f.type = "connection" ->
            /\ connectionMessages' =
                 <<"Received: connection", "Connection established">>
            /\ alerts' = <<>>
            /\ consoleErrors' = <<>>
            /\ UNCHANGED <<branchId, isConnected, orders, socketRef, replaced,
                           pendingFetches, mounted>>
       [] OTHER ->
            /\ connectionMessages' = <<"Received: " \o f.type>>
            /\ alerts' = <<>>
            /\ consoleErrors' = <<>>
            /\ UNCHANGED <<branchId, isConnected, orders, socketRef, replaced,
                           pendingFetches, mounted>>
  /\ UNCHANGED <<item, totalCell>>
  /\ History

\* how a command's request ends: the envelope's response is 200, it is not
\* 200, or axios throws
CommandResults == {"ok", "non200", "throw"}

\* createOrder, lines 214-252, the request together with its response: before
\* its await the handler writes nothing, and after it it appends to the log
\* and resets the form, which no other handler reads.  hasItems is whether the
\* form holds an item (newOrder.items.length)
CreateOrder(hasItems, r) ==
  /\ mounted
  /\ IF branchId = NoBranch \/ ~hasItems
       THEN /\ alerts' = <<"Please enter branch ID and at least one item">>
            /\ connectionMessages' = <<>>
            /\ consoleErrors' = <<>>
       ELSE /\ alerts' = <<>>
            /\ connectionMessages' =
                 IF r = "ok" THEN <<"Order created successfully">>
                             ELSE <<"Error creating order">>
            /\ consoleErrors' =
                 IF r = "throw" THEN <<"Error creating order">> ELSE <<>>
  /\ UNCHANGED <<branchId, isConnected, orders, socketRef, replaced,
                 pendingFetches, mounted>>
  /\ UNCHANGED <<item, totalCell>>
  /\ History

\* updateOrderStatus, lines 275-300, called by a status button of the stored
\* order id (lines 647-682), the request together with its response
UpdateOrderStatus(id, r) ==
  /\ mounted
  /\ \E i \in DOMAIN orders : OrderID(orders[i]) = id
  /\ connectionMessages' =
       CASE r = "ok" -> <<"Order status updated">>
         [] r = "non200" -> <<"Error updating order status">>
         [] OTHER -> <<"Error updating status">>
  /\ alerts' = <<>>
  /\ consoleErrors' =
       IF r = "throw" THEN <<"Error updating order status">> ELSE <<>>
  /\ UNCHANGED <<branchId, isConnected, orders, socketRef, replaced,
                 pendingFetches, mounted>>
  /\ UNCHANGED <<item, totalCell>>
  /\ History

Next ==
  \/ Unmount
  \/ \E b \in BranchInputs : SetBranchId(b)
  \/ RefreshOrders
  \/ \E b \in BranchInputs : \E r \in Responses(b) : FetchOrdersDone(b, r)
  \/ ConnectWebSocket
  \/ Disconnect
  \/ OnOpen
  \/ OnClose
  \/ OnError
  \/ \E i \in DOMAIN replaced : OnCloseReplaced(i)
  \/ \E i \in DOMAIN replaced : OnErrorReplaced(i)
  \/ \E f \in Frames(socketRef.branch) : OnMessage(f)

Spec == Init /\ [][Next]_vars

\* the component with its two command forms as well; the commands write the
\* log, the alerts and the console only
NextCommands ==
  \/ Next
  \/ \E h \in BOOLEAN : \E r \in CommandResults : CreateOrder(h, r)
  \/ \E id \in OrderIDs : \E r \in CommandResults : UpdateOrderStatus(id, r)

SpecCommands == Init /\ [][NextCommands]_vars

\* ------------------------------------------------------------- line totals

\* Amounts are whole numbers: soldPrice in cents, percentages in percent, and
\* a total in 1/Scale cent (the two divisions by 100 of the Total cells).
Scale == 10000

Quantities == 1..MaxQuantity
Prices == {0, 1, 99, 1000}
Discounts == {0, 10, 50, 100}
Taxes == {0, 5, 10}

\* ResponseOrderItemDTO: discountedPercentage is optional, taxedPercentage is not
OrderLines ==
  [quantity : Quantities, soldPrice : Prices, taxedPercentage : Taxes]
    \cup [quantity : Quantities, soldPrice : Prices, taxedPercentage : Taxes,
          discountedPercentage : Discounts]
\* OrderItem, a line of the create-order form: it has no tax field
FormLines ==
  [quantity : Quantities, soldPrice : Prices]
    \cup [quantity : Quantities, soldPrice : Prices, discountedPercentage : Discounts]

\* item.discountedPercentage || 0
Discount(it) ==
  IF "discountedPercentage" \in DOMAIN it THEN it.discountedPercentage ELSE 0

\* a variant that leaves the tax factor out of the order list's cell
OrderItemTotalNoTax(it) == it.quantity * it.soldPrice * (100 - Discount(it)) * 100

\* the expression of the order list's Total cell, before toFixed
OrderItemTotal(it) ==
  it.quantity * it.soldPrice * (100 - Discount(it)) * (100 + it.taxedPercentage)

\* the expression of the form's Total cell, before toFixed: no tax factor
FormItemTotal(it) == it.quantity * it.soldPrice * (100 - Discount(it)) * 100

\* Number.prototype.toFixed(2): the cents nearest to the number.  The number
\* is a binary double, so a product that is exactly halfway between two cents
\* may lie on either side of the halfway point: both neighbours are possible.
ToFixed2(n) ==
  IF n % Scale = Scale \div 2
    THEN {n \div Scale, n \div Scale + 1}
    ELSE {(n + Scale \div 2) \div Scale}

componentVars == <<branchId, isConnected, orders, connectionMessages, alerts, consoleErrors,
                   socketRef, replaced, pendingFetches, mounted, reconcileStarted, e2e>>

\* rendering a row of an order's item table
RenderOrderItemTotal ==
  /\ item \in OrderLines
  /\ \E c \in ToFixed2(OrderItemTotal(item)) : totalCell' = <<c>>
  /\ UNCHANGED <<item, componentVars>>

\* rendering a row of the form's item table
RenderFormItemTotal ==
  /\ item \in FormLines
  /\ \E c \in ToFixed2(FormItemTotal(item)) : totalCell' = <<c>>
  /\ UNCHANGED <<item, componentVars>>

InitLineTotal == Mount /\ item \in OrderLines \cup FormLines /\ totalCell = <<>>

NextLineTotal == RenderOrderItemTotal \/ RenderFormItemTotal

SpecLineTotal == InitLineTotal /\ [][NextLineTotal]_vars

\* ------------------------------------------------------------------ claims

\* the store holds order o: one entry has o's orderID, and it is o
Holds(s, o) ==
  /\ \E i \in DOMAIN s : s[i] = o
  /\ \A i \in DOMAIN s : OrderID(s[i]) = OrderID(o) => s[i] = o

IsValid(o) == o \in ValidOrders

\* C1: Uniqueness.  Starting from the empty store, whatever frames were
\* dispatched and whatever fetch results (of pairwise distinct orderIDs)
\* were applied, no two entries of orders have the same orderID.
C1_Uniqueness ==
  \A i, j \in DOMAIN orders :
    i # j => OrderID(orders[i]) # OrderID(orders[j])

\* two valid orders are stored and a new_order frame was the last thing handled
C1_Witness ==
  /\ Len(orders) = 2
  /\ IsValid(orders[1]) /\ IsValid(orders[2])
  /\ connectionMessages = <<"Received: new_order">>

UpsertTypes == {"new_order", "status_changed"}

\* C2: Upsert semantics for both push event types.  A new_order or a
\* status_changed frame carrying a valid order o leaves the store holding o
\* under o.orderID: inserted when the id was not stored, replacing the stored
\* entry when it was.
C2_UpsertBothTypes ==
  [][\A t \in UpsertTypes : \A o \in ValidOrders :
       OnMessage([type |-> t, data |-> o]) => Holds(orders', o)]_vars

\* C3: Idempotence.  In every store the component reaches, applying the
\* update of a valid order o a second time changes nothing: for new_order and
\* for status_changed, update(update(store, o), o) = update(store, o).
C3_Idempotence ==
  \A o \in ValidOrders :
    LET once == HandleNewOrder(orders, o)
        changed == HandleStatusChange(orders, o)
    IN  /\ ~HandleNewOrderThrows(orders, o)
        /\ ~HandleNewOrderThrows(once, o)
        /\ HandleNewOrder(once, o) = once
        /\ ~HandleStatusChangeThrows(orders, o)
        /\ ~HandleStatusChangeThrows(changed, o)
        /\ HandleStatusChange(changed, o) = changed

\* a new_order frame was just applied to a store of two orders, and applying
\* the frame of a stored order again gives the same store
C3_Witness ==
  /\ connectionMessages = <<"Received: new_order">>
  /\ Len(orders) = 2
  /\ \E o \in ValidOrders : Holds(orders, o) /\ HandleNewOrder(orders, o) = orders

\* C4: Epoch discard.  The result of a fetch that was started for one branch
\* and completes after the branch has changed to another is not written to
\* the store.  (The claim's general form, about any earlier epoch, implies
\* this case.)
C4_EpochDiscard ==
  [][\A b \in BranchInputs : \A r \in Responses(b) :
       (b \in Branches /\ branchId \in Branches \ {b} /\ FetchOrdersDone(b, r))
         => orders' = orders]_vars

\* C5: Reconcile on connect.  Every time the socket opens, a reconciliation
\* fetch for its branch comes with the subscription: fetchOrders was called
\* for the branch since connectWebSocket created the socket, or a call for
\* the branch is in flight once the open event has been handled.
C5_ReconcileOnConnect ==
  [][OnOpen =>
       \/ reconcileStarted
       \/ pendingFetches'[socketRef.branch] > 0]_vars

StatusOf(id) ==
  {orders[i].orderStatus : i \in {j \in DOMAIN orders : OrderID(orders[j]) = id}}

\* C6: End-to-end convergence.  Along the scenario, the new_order frame makes
\* the store exactly [O1], the status_changed frame makes O1 Preparing, and
\* once the socket has opened again O1 becomes Completed with no user action:
\* with nothing in flight, the store shows the server's Completed.
C6_EndToEnd ==
  /\ e2e = "new_order" => orders = <<Order("O1", "Pending")>>
  /\ e2e = "status_changed" => StatusOf("O1") = {"Preparing"}
  /\ (e2e = "reconnected" /\ InFlight(pendingFetches) = 0)
       => StatusOf("O1") = {"Completed"}

\* C7: Reconciliation non-destructiveness.  When a fetchOrders call fails (the
\* request throws, or the envelope's response is not 200), the store after
\* it equals the store before it.
C7_FailedFetchKeepsStore ==
  [][\A b \in BranchInputs : \A r \in Failures :
       FetchOrdersDone(b, r) => orders' = orders]_vars

\* a fetch has just failed, and the store still holds orders
C7_Witness ==
  /\ consoleErrors = <<"Error fetching orders">>
  /\ connectionMessages = <<>>
  /\ orders # <<>>

\* C8: Schema-invalid payloads are dropped.  A new_order or status_changed
\* frame whose payload is invalid leaves the store as it was, and nothing
\* but a log entry records it.
C8_InvalidPayloadDropped ==
  [][\A t \in UpsertTypes : \A d \in InvalidPayloads :
       OnMessage([type |-> t, data |-> d])
         => /\ orders' = orders
            /\ alerts' = <<>>
            /\ consoleErrors' = <<>>
            /\ mounted']_vars

Malformed(f) == f.type = "unparseable" \/ (f.type \in UpsertTypes /\ ~IsValid(f.data))

\* C9: Dispatcher resilience.  A malformed frame (unparseable text or an
\* invalid payload) between two valid new_order frames blocks neither: the
\* orders stored before it stay stored, the connection is as it was, so that
\* the next frame is delivered and applied, and no error leaves the handler.
C9_DispatcherResilience ==
  [][\A f \in Frames(socketRef.branch) :
       (Malformed(f) /\ OnMessage(f))
         => /\ \A o \in ValidOrders : Holds(orders, o) => Holds(orders', o)
            /\ isConnected' = isConnected
            /\ socketRef' = socketRef
            /\ mounted'
            /\ consoleErrors' # <<"Uncaught TypeError">>]_vars

\* the connection state of the specification's section 3, read off the
\* component's state
ConnectionState ==
  IF isConnected THEN "Connected"
  ELSE IF socketRef.readyState = "CONNECTING" THEN "Connecting"
  ELSE "Disconnected"

\* C10 as claimed: while the component is mounted, the connection state
\* changes only Disconnected -> Connecting, Connecting -> Connected,
\* Connected -> Disconnected.
C10_OnlyThreeTransitions ==
  [][(mounted' /\ ConnectionState' # ConnectionState) =>
       <<ConnectionState, ConnectionState'>> \in
         {<<"Disconnected", "Connecting">>, <<"Connecting", "Connected">>,
          <<"Connected", "Disconnected">>}]_vars

\* C10, amended: the connection state changes only Disconnected -> Connecting
\* (connectWebSocket with a branchId), Connecting -> Connected (the socket
\* opens), Connected -> Disconnected (a close or error event of the socket or
\* of a socket it replaced, or the component is torn down) and Connecting ->
\* Disconnected (the connecting socket fails, or the component is torn down).
C10_ConnectionStateMachine ==
  [][ConnectionState' # ConnectionState =>
       LET step == <<ConnectionState, ConnectionState'>> IN
       \/ /\ step = <<"Disconnected", "Connecting">>
          /\ ConnectWebSocket /\ branchId # NoBranch
       \/ /\ step = <<"Connecting", "Connected">>
          /\ OnOpen
       \/ /\ step = <<"Connected", "Disconnected">>
          /\ \/ OnClose \/ OnError
             \/ \E i \in DOMAIN replaced : OnCloseReplaced(i) \/ OnErrorReplaced(i)
             \/ ~mounted'
       \/ /\ step = <<"Connecting", "Disconnected">>
          /\ OnError \/ ~mounted']_vars

\* the connecting socket has just failed: Connecting -> Disconnected
C10_Witness ==
  /\ mounted
  /\ ConnectionState = "Disconnected"
  /\ socketRef.readyState = "CLOSED" /\ ~socketRef.handshake
  /\ connectionMessages = <<"WebSocket error", "Disconnected from WebSocket server">>

\* C11: connectWebSocket with an empty branchId is rejected on the spot: no
\* socket is created, the socket held is not closed, and the connection
\* state, the connection log and the order store are as they were.
C11_EmptyBranchRejected ==
  [][(branchId = NoBranch /\ ConnectWebSocket)
       => /\ socketRef' = socketRef
          /\ replaced' = replaced
          /\ isConnected' = isConnected
          /\ ConnectionState' = ConnectionState
          /\ connectionMessages' = <<>>
          /\ orders' = orders]_vars

\* connectWebSocket has just refused an empty branchId while the socket of an
\* earlier call is still connecting
C11_Witness ==
  /\ alerts = <<"Please enter a Branch ID">>
  /\ branchId = NoBranch
  /\ socketRef.readyState = "CONNECTING"

\* C12: One transition and one report per failure.  While the component is
\* mounted, a failure of the socket in socketRef (it fails to open, or the
\* open socket errors or is closed by the server) leaves the connection state
\* Disconnected and adds exactly one entry to the connection log, also when
\* the browser delivers the error event and the close event for it; and the
\* state leaves Disconnected only by connectWebSocket.
C12_OneTransitionOneReport ==
  [][/\ (mounted /\ (OnError \/ (OnClose /\ socketRef.readyState = "OPEN")))
          => /\ ConnectionState' = "Disconnected"
             /\ Len(connectionMessages') = 1
     /\ (ConnectionState = "Disconnected" /\ ConnectionState' # "Disconnected")
          => ConnectWebSocket]_vars

\* C13: disconnect is idempotent.  Right after the Disconnect button's handler
\* has run, running it again changes nothing: the button is disabled, or the
\* handler leaves the socket as it is and appends nothing to the log (it
\* writes neither the connection state nor the store).
C13_DisconnectIdempotent ==
  (mounted /\ connectionMessages = <<"Manually disconnected">>)
    => \/ ~isConnected
       \/ /\ Close(socketRef) = socketRef
          /\ DisconnectLog(socketRef) = <<>>

\* C14: Serialized, in-order mutation.  Every handler mutates the store it
\* finds when it is dequeued, one at a time: a frame carrying a valid order
\* keeps every stored order of another orderID (nothing applied before it is
\* lost) and leaves its own order stored when new_order carries it or its
\* orderID was stored, and a successful fetch leaves exactly what it fetched,
\* whatever was handled while it was in flight.
C14_SerializedMutation ==
  [][/\ \A t \in UpsertTypes :
          connectionMessages' = (IF t = "new_order"
                                   THEN <<"Received: new_order">>
                                   ELSE <<"Received: status_changed">>) =>
            \A d \in ValidOrders :
              OnMessage([type |-> t, data |-> d])
                => /\ \A o \in ValidOrders :
                        (Holds(orders, o) /\ o.orderID # d.orderID)
                          => Holds(orders', o)
                   /\ (\/ t = "new_order"
                       \/ \E i \in DOMAIN orders : OrderID(orders[i]) = d.orderID)
                        => Holds(orders', d)
                   /\ Len(orders') >= Len(orders)
     /\ connectionMessages' = <<"Fetched orders">> =>
          \A b \in Branches : \A s \in Snapshots(b) :
            FetchOrdersDone(b, [outcome |-> "ok", data |-> s]) => orders' = s]_vars

\* a frame was handled while a fetch was in flight, and the order stored
\* before it is still stored beside the one it carried
C14_Witness ==
  /\ connectionMessages = <<"Received: new_order">>
  /\ InFlight(pendingFetches) > 0
  /\ Len(orders) = 2
  /\ orders[2].orderID = "O2"

NonMutatingTypes == {"connection", "pong", "unknown"}

\* what onmessage appends to the log for a frame of such a type
ReceivedLog(t) ==
  CASE t = "connection" -> <<"Received: connection", "Connection established">>
    [] t = "pong" -> <<"Received: pong">>
    [] OTHER -> <<"Received: unknown">>

\* C15: Non-mutating frames.  A frame of type connection, pong or of a type
\* the switch does not know leaves the order store and the connection state
\* as they were, whatever it carries as data; it only adds to the log.
C15_NonMutatingFrames ==
  [][\A t \in NonMutatingTypes :
       connectionMessages' = ReceivedLog(t) =>
         \A d \in Payloads(socketRef.branch) :
           OnMessage([type |-> t, data |-> d])
             => /\ orders' = orders
                /\ isConnected' = isConnected
                /\ socketRef' = socketRef
                /\ ConnectionState' = ConnectionState
                /\ mounted']_vars

\* a pong frame was handled while the store held an order
C15_Witness ==
  /\ connectionMessages = <<"Received: pong">>
  /\ orders # <<>>
  /\ isConnected

OfBranch(s, b) == SelectSeq(s, LAMBDA o : o.branchID = b)

\* C16: A successful fetch for branch b replaces the store's entries of branch
\* b by the fetched orders, and every stored order of another branch is still
\* stored, unchanged, afterwards.
C16_ReconcileOnlyItsBranch ==
  [][connectionMessages' = <<"Fetched orders">> =>
       \A b \in Branches : \A s \in Snapshots(b) :
         FetchOrdersDone(b, [outcome |-> "ok", data |-> s])
           => /\ OfBranch(orders', b) = s
              /\ \A o \in ValidOrders :
                   (o.branchID # b /\ Holds(orders, o)) => Holds(orders', o)]_vars

\* C17: Application-level errors.  When fetchOrders, createOrder or
\* updateOrderStatus gets an envelope whose response is not 200, the store is
\* left as it was and the error is reported in the connection log.
C17_ApplicationErrors ==
  [][/\ \A b \in BranchInputs :
          FetchOrdersDone(b, [outcome |-> "non200", data |-> <<>>])
            => orders' = orders /\ connectionMessages' # <<>>
     /\ (branchId # NoBranch /\ CreateOrder(TRUE, "non200"))
          => orders' = orders /\ connectionMessages' # <<>>
     /\ \A id \in OrderIDs :
          UpdateOrderStatus(id, "non200")
            => orders' = orders /\ connectionMessages' # <<>>]_vars

\* C18 as stated: the displayed line total equals
\* quantity * unitPrice * (1 - discount/100) * (1 + tax/100), an absent discount
\* or tax counting as 0.
C18_LineTotalExact ==
  totalCell # <<>>
    => LET d == IF "discountedPercentage" \in DOMAIN item THEN item.discountedPercentage ELSE 0
           x == IF "taxedPercentage" \in DOMAIN item THEN item.taxedPercentage ELSE 0
       IN  totalCell[1] * 10000 = item.quantity * item.soldPrice * (100 - d) * (100 + x)

\* C18, amended: the displayed line total is
\* quantity * unitPrice * (1 - discount/100) * (1 + tax/100) rounded to two
\* decimals, so it is within half a cent of that product (an absent discount
\* or tax counting as 0); quantity 2, price 10.00, discount 10, tax 5 shows
\* 18.90; and rendering the cell leaves the line as it was.
C18_LineTotalRounded ==
  [][(RenderOrderItemTotal \/ RenderFormItemTotal)
       => LET d == IF "discountedPercentage" \in DOMAIN item THEN item.discountedPercentage ELSE 0
              x == IF "taxedPercentage" \in DOMAIN item THEN item.taxedPercentage ELSE 0
              product == item.quantity * item.soldPrice * (100 - d) * (100 + x)
              shown == totalCell'[1] * 10000
          IN  /\ item' = item
              /\ shown - product <= 5000
              /\ product - shown <= 5000
              /\ (item = [quantity |-> 2, soldPrice |-> 1000, taxedPercentage |-> 5,
                          discountedPercentage |-> 10]) => totalCell'[1] = 1890]_vars

C18_Witness ==
  /\ item = [quantity |-> 2, soldPrice |-> 1000, taxedPercentage |-> 5,
             discountedPercentage |-> 10]
  /\ totalCell = <<1890>>

\* C19: in every reachable state of the mounted component, isConnected is true
\* exactly when the socket held in socketRef is open.
C19_IsConnectedIffOpen ==
  mounted => (isConnected <=> socketRef.readyState = "OPEN")

\* C20: in every reachable state at most one of the sockets the component
\* created (the one in socketRef and the ones connectWebSocket replaced) is
\* connecting or open.
C20_SingleLiveChannel ==
  LET Live(s) == s.readyState \in {"CONNECTING", "OPEN"}
  IN  (IF Live(socketRef) THEN 1 ELSE 0) + Len(SelectSeq(replaced, Live)) <= 1

C20_Witness ==
  /\ socketRef.readyState = "OPEN"
  /\ replaced # <<>>
  /\ replaced[1].readyState = "CLOSING"

\* C21: Upsert frame.  Dispatching a new_order or status_changed frame for an
\* order o leaves the stored entries of every other orderID as they were and
\* in the same relative position, and the store grows by exactly one entry
\* when the frame is a new_order whose orderID was not stored and keeps its
\* length otherwise: a push frame never removes an order.
C21_UpsertFrame ==
  [][\A t \in UpsertTypes :
       connectionMessages' = (IF t = "new_order"
                                THEN <<"Received: new_order">>
                                ELSE <<"Received: status_changed">>) =>
         \A d \in ValidOrders :
           OnMessage([type |-> t, data |-> d])
             => LET Others(s) == SelectSeq(s, LAMBDA e : e.orderID # d.orderID)
                    unseen == \A i \in DOMAIN orders : orders[i].orderID # d.orderID
                IN  /\ Others(orders') = Others(orders)
                    /\ Len(orders') = Len(orders)
                                        + (IF t = "new_order" /\ unseen THEN 1 ELSE 0)]_vars

\* a status_changed frame replaced the first of two stored orders in place
C21_Witness ==
  /\ connectionMessages = <<"Received: status_changed">>
  /\ Len(orders) = 2
  /\ orders[1] = [orderID |-> "O1", branchID |-> "B1", orderStatus |-> "Completed"]
  /\ orders[2].orderID = "O2"

====
